---------------------------- MODULE Spec2Model ----------------------------
(***************************************************************************)
(* CodeEditorWrapper (packages/codeeditor/src/widget.ts): a widget that    *)
(* hosts one code editor, forwards the container's lifecycle messages to   *)
(* it and mirrors the editor's selection state into two CSS classes on its *)
(* own node.                                                               *)
(*                                                                         *)
(* The editor, its model and the widget framework are collaborators of the *)
(* wrapper.  Their state that the wrapper reads (selection, line texts,    *)
(* the visibility flags, the message queue, the signal connection) is kept *)
(* in variables; the calls the wrapper makes on the editor are recorded in *)
(* `calls`, one entry per invocation, for the handler that ran last.       *)
(***************************************************************************)
EXTENDS Integers, Sequences, FiniteSets

\* ------------------------------------------------------------------ bounds
\* Longest line text of the document.
MaxLineLen == 1
\* Largest column a position returned by getSelection may have.
MaxColumn == 2
\* Most selection-changed notifications that can be in flight at once.
MaxPending == 1

\* ---------------------------------------------------------------- constants
HAS_SELECTION_CLASS == "jp-mod-has-primary-selection"
HAS_IN_LEADING_WHITESPACE_CLASS == "jp-mod-in-leading-whitespace"
\* The class every Widget node carries from the base constructor.
WIDGET_CLASS == "p-Widget"

\* Characters of a line: one that \s matches (a space) and one that it does
\* not.
Whitespace == {"sp"}
Chars == Whitespace \cup {"x"}

\* The document has two lines.
Lines == {0, 1}
Columns == 0 .. MaxColumn
RECURSIVE TextsOfLen(_)
TextsOfLen(n) ==
    IF n = 0 THEN {<<>>}
    ELSE {Append(t, c) : t \in TextsOfLen(n - 1), c \in Chars}
LineTexts == UNION {TextsOfLen(n) : n \in 0 .. MaxLineLen}

Position == [line : Lines, column : Columns]
Selection == [start : Position, end : Position]
\* Widths and heights a resize message may carry (-1 is "unknown").
Dims == {-1, 0, 1}

Undefined == "undefined"
Node == "node"
NoEditor == "none"
\* The option records a caller may construct the wrapper with.
OptionChoices ==
    { [model |-> "m1", uuid |-> Undefined, config |-> Undefined,
       selectionStyle |-> Undefined],
      [model |-> "m2", uuid |-> "u1", config |-> "c1",
       selectionStyle |-> "s1"] }

VARIABLES
    pc,                 \* "new", "idle", "disposing" (inside dispose()), "failed"
    options,            \* the IOptions the constructor is called with
    editor,             \* this.editor
    factoryCalls,       \* the argument of every call of options.factory
    connected,          \* selections.changed is connected to _onSelectionsChanged
    classes,            \* the class list of this.node
    isDisposed,         \* Widget.isDisposed
    isAttached,         \* Widget.isAttached
    isVisible,          \* Widget.isVisible
    pendingUpdate,      \* an update-request is posted and not yet delivered
    selection,          \* what editor.getSelection() returns
    lines,              \* what editor.getLine(n) returns
    pendingSel,         \* selection-changed notifications in flight
    editorDisposeCalls, \* how often editor.dispose() was invoked
    calls,              \* the editor operations the last handler invoked
    last                \* the handler that ran last, with its input

vars == <<pc, options, editor, factoryCalls, connected, classes, isDisposed,
          isAttached, isVisible, pendingUpdate, selection, lines, pendingSel,
          editorDisposeCalls, calls, last>>

widgetFlags == <<isDisposed, isAttached, isVisible>>
editorState == <<selection, lines>>
construction == <<options, editor, factoryCalls>>

Call(op, args) == [op |-> op, args |-> args]
\* What a handler finds of the host when it starts.
Snapshot ==
    [pc |-> pc, classes |-> classes, isDisposed |-> isDisposed,
     pendingUpdate |-> pendingUpdate,
     editorDisposeCalls |-> editorDisposeCalls]
Ran(handler, width, height) ==
    [handler |-> handler, width |-> width, height |-> height, before |-> Snapshot]
Handled(handler) == Ran(handler, 0, 0)

\* The wrapper is constructed and no handler of it is running: the next
\* message, signal or call can be dispatched to it.
Ready == pc = "idle" /\ last.handler = "none"

Min(a, b) == IF a < b THEN a ELSE b

\* ------------------------------------------------------- selection classes
\* String.prototype.slice(0, column): the first `column` characters, all of
\* the string when it is shorter.
Slice(text, column) == SubSeq(text, 1, Min(column, Len(text)))

\* Variant /^\s*$/ : also matches the empty string.
MatchesLeadingWhitespace_Star(text) ==
    \A i \in 1 .. Len(text) : text[i] \in Whitespace
\* leadingWhitespaceRe = /^\s+$/ : one or more characters, all whitespace.
MatchesLeadingWhitespace(text) ==
    /\ Len(text) >= 1
    /\ \A i \in 1 .. Len(text) : text[i] \in Whitespace

\* Variant that compares the columns only.
IsRange_ColumnOnly(sel) == sel.start.column # sel.end.column
\* start.column !== end.column || start.line !== end.line
IsRange(sel) ==
    \/ sel.start.column # sel.end.column
    \/ sel.start.line # sel.end.line

addClass(cls, name) == cls \cup {name}
removeClass(cls, name) == cls \ {name}

\* Variant without removeClass(HAS_IN_LEADING_WHITESPACE_CLASS).
RangeClasses_KeepWhitespace(cls) == addClass(cls, HAS_SELECTION_CLASS)
\* The branch of _onSelectionsChanged for a range selection.
RangeClasses(cls) ==
    removeClass(addClass(cls, HAS_SELECTION_CLASS), HAS_IN_LEADING_WHITESPACE_CLASS)

\* Variant without removeClass(HAS_SELECTION_CLASS).
CaretClasses_KeepSelection(cls, prefix) ==
    IF MatchesLeadingWhitespace(prefix)
    THEN addClass(cls, HAS_IN_LEADING_WHITESPACE_CLASS)
    ELSE removeClass(cls, HAS_IN_LEADING_WHITESPACE_CLASS)
\* Variant without the else branch of the whitespace test.
CaretClasses_NoElse(cls, prefix) ==
    IF MatchesLeadingWhitespace(prefix)
    THEN addClass(removeClass(cls, HAS_SELECTION_CLASS),
                  HAS_IN_LEADING_WHITESPACE_CLASS)
    ELSE removeClass(cls, HAS_SELECTION_CLASS)
\* The branch of _onSelectionsChanged for a caret; prefix is the caret line
\* sliced up to the caret column.
CaretClasses(cls, prefix) ==
    IF MatchesLeadingWhitespace(prefix)
    THEN addClass(removeClass(cls, HAS_SELECTION_CLASS),
                  HAS_IN_LEADING_WHITESPACE_CLASS)
    ELSE removeClass(removeClass(cls, HAS_SELECTION_CLASS),
                     HAS_IN_LEADING_WHITESPACE_CLASS)

\* Variant that leaves a node alone that already carries one of the two
\* classes.
SelectionClasses_Sticky(cls, sel, ls) ==
    IF cls \cap {HAS_SELECTION_CLASS, HAS_IN_LEADING_WHITESPACE_CLASS} # {}
    THEN cls
    ELSE IF IsRange(sel)
         THEN RangeClasses(cls)
         ELSE CaretClasses(cls, Slice(ls[sel.end.line], sel.end.column))
\* The class list _onSelectionsChanged leaves, given the one it finds, the
\* selection and the line texts the editor returns.
SelectionClasses(cls, sel, ls) ==
    IF IsRange(sel)
    THEN RangeClasses(cls)
    ELSE CaretClasses(cls, Slice(ls[sel.end.line], sel.end.column))

\* Variant that refreshes the editor after it changed the classes.
SelectionCalls_Refresh(sel) ==
    IF IsRange(sel)
    THEN <<Call("getSelection", <<>>), Call("refresh", <<>>)>>
    ELSE <<Call("getSelection", <<>>), Call("getLine", <<sel.end.line>>),
           Call("refresh", <<>>)>>
\* The editor operations _onSelectionsChanged invokes.
SelectionCalls(sel) ==
    IF IsRange(sel)
    THEN <<Call("getSelection", <<>>)>>
    ELSE <<Call("getSelection", <<>>), Call("getLine", <<sel.end.line>>)>>

\* ------------------------------------------------------------------ resize
\* Variant that sets the size only when visible.
ResizeCalls_NeedsVisible(width, height, visible) ==
    IF width >= 0 /\ height >= 0 /\ visible
    THEN <<Call("setSize", <<width, height>>)>>
    ELSE IF visible THEN <<Call("resizeToFit", <<>>)>> ELSE <<>>
\* Variant with || in place of && in the size test.
ResizeCalls_Or(width, height, visible) ==
    IF width >= 0 \/ height >= 0
    THEN <<Call("setSize", <<width, height>>)>>
    ELSE IF visible THEN <<Call("resizeToFit", <<>>)>> ELSE <<>>
\* Variant without the isVisible test.
ResizeCalls_AlwaysFit(width, height, visible) ==
    IF width >= 0 /\ height >= 0
    THEN <<Call("setSize", <<width, height>>)>>
    ELSE <<Call("resizeToFit", <<>>)>>
\* The editor operations onResize invokes for a message of the given
\* width and height, with the widget visible or not.
ResizeCalls(width, height, visible) ==
    IF width >= 0 /\ height >= 0
    THEN <<Call("setSize", <<width, height>>)>>
    ELSE IF visible THEN <<Call("resizeToFit", <<>>)>> ELSE <<>>

\* ------------------------------------------------------------ construction
\* Variant that does not pass the uuid on.
FactoryArgs_DropUuid(opts) ==
    [host |-> Node, model |-> opts.model, uuid |-> Undefined,
     config |-> opts.config, selectionStyle |-> opts.selectionStyle]
\* The options object the constructor hands to options.factory.
FactoryArgs(opts) ==
    [host |-> Node, model |-> opts.model, uuid |-> opts.uuid,
     config |-> opts.config, selectionStyle |-> opts.selectionStyle]

\* The editor a factory returns: it is mounted on the host it was given and
\* holds the model it was given.
NewEditor(args) == [host |-> args.host, model |-> args.model]

\* get model(): this.editor.model
GetModel == editor.model

Init ==
    /\ pc = "new"
    /\ options \in OptionChoices
    /\ editor = NoEditor
    /\ factoryCalls = <<>>
    /\ connected = FALSE
    /\ classes = {WIDGET_CLASS}
    /\ isDisposed = FALSE
    /\ isAttached = FALSE
    /\ isVisible = FALSE
    /\ pendingUpdate = FALSE
    /\ selection = [start |-> [line |-> 0, column |-> 0],
                    end |-> [line |-> 0, column |-> 0]]
    /\ lines \in [Lines -> LineTexts]
    /\ pendingSel = 0
    /\ editorDisposeCalls = 0
    /\ calls = <<>>
    /\ last = Handled("none")

\* new CodeEditorWrapper(options), the factory returning an editor.
Constructor ==
    /\ pc = "new"
    /\ factoryCalls' = Append(factoryCalls, FactoryArgs(options))
    /\ editor' = NewEditor(FactoryArgs(options))
    /\ connected' = TRUE
    /\ pc' = "idle"
    /\ calls' = <<>>
    /\ last' = Handled("constructor")
    /\ UNCHANGED <<options, classes, widgetFlags, pendingUpdate, editorState,
                   pendingSel, editorDisposeCalls>>

\* Variant that connects the handler to the caller's model before it calls
\* the factory.
ConstructorThrows_ConnectsFirst ==
    /\ pc = "new"
    /\ connected' = TRUE
    /\ factoryCalls' = Append(factoryCalls, FactoryArgs(options))
    /\ pc' = "failed"
    /\ calls' = <<>>
    /\ last' = Handled("constructor")
    /\ UNCHANGED <<options, editor, classes, widgetFlags, pendingUpdate,
                   editorState, pendingSel, editorDisposeCalls>>

\* new CodeEditorWrapper(options), the factory throwing: the exception
\* leaves the constructor before this.editor is assigned or the signal is
\* connected.
ConstructorThrows ==
    /\ pc = "new"
    /\ factoryCalls' = Append(factoryCalls, FactoryArgs(options))
    /\ pc' = "failed"
    /\ calls' = <<>>
    /\ last' = Handled("constructor")
    /\ UNCHANGED <<options, editor, connected, classes, widgetFlags,
                   pendingUpdate, editorState, pendingSel, editorDisposeCalls>>

\* ---------------------------------------------------------------- disposal
\* Variant without the isDisposed test.
DisposeProceeds_Unguarded(disposed) == TRUE
\* if (this.isDisposed) { return; } : whether dispose() goes on to do work.
DisposeProceeds(disposed) == ~disposed

\* Variant that disposes the editor before it calls super.dispose().
Dispose_EditorFirst ==
    /\ Ready \/ pc = "disposing"
    /\ IF DisposeProceeds(isDisposed)
       THEN /\ editorDisposeCalls' = editorDisposeCalls + 1
            /\ calls' = <<Call("dispose", <<>>)>>
            /\ pc' = "disposing"
       ELSE /\ calls' = <<>>
            /\ UNCHANGED <<editorDisposeCalls, pc>>
    /\ last' = Handled("dispose")
    /\ UNCHANGED <<construction, classes, editorState, widgetFlags, connected,
                   pendingUpdate, pendingSel>>

\* Variant whose super.dispose() leaves the signal connection in place.
Dispose_KeepsConnection ==
    /\ Ready \/ pc = "disposing"
    /\ IF DisposeProceeds(isDisposed)
       THEN /\ isDisposed' = TRUE
            /\ isAttached' = FALSE
            /\ isVisible' = FALSE
            /\ pendingUpdate' = FALSE
            /\ pc' = "disposing"
       ELSE UNCHANGED <<widgetFlags, pendingUpdate, pc>>
    /\ calls' = <<>>
    /\ last' = Handled("dispose")
    /\ UNCHANGED <<construction, classes, editorState, editorDisposeCalls,
                   connected, pendingSel>>

\* dispose() up to and including super.dispose().  Widget.dispose() sets the
\* disposed flag first, detaches the widget and clears its signal
\* connections and its posted messages.  A call that finds the widget
\* disposed returns at once; such a call can also arrive while a first call
\* is still inside dispose() (pc = "disposing").
Dispose ==
    /\ Ready \/ pc = "disposing"
    /\ IF DisposeProceeds(isDisposed)
       THEN /\ isDisposed' = TRUE
            /\ isAttached' = FALSE
            /\ isVisible' = FALSE
            /\ connected' = FALSE
            /\ pendingUpdate' = FALSE
            /\ pendingSel' = 0
            /\ pc' = "disposing"
       ELSE UNCHANGED <<widgetFlags, connected, pendingUpdate, pendingSel, pc>>
    /\ calls' = <<>>
    /\ last' = Handled("dispose")
    /\ UNCHANGED <<construction, classes, editorState, editorDisposeCalls>>

\* The rest of the dispose() call that went past the guard:
\* this.editor.dispose().  The call began outside dispose(), on a widget
\* that was not disposed.
DisposeEditor ==
    /\ pc = "disposing"
    /\ editorDisposeCalls' = editorDisposeCalls + 1
    /\ calls' = <<Call("dispose", <<>>)>>
    /\ pc' = "idle"
    /\ last' = [Handled("dispose") EXCEPT !.before.pc = "idle",
                                         !.before.isDisposed = FALSE]
    /\ UNCHANGED <<construction, connected, classes, widgetFlags, pendingUpdate,
                   editorState, pendingSel>>

\* ------------------------------------------------------ lifecycle messages
\* The editor operations onActivateRequest invokes.
ActivateCalls == <<Call("focus", <<>>)>>

\* onActivateRequest
ActivateRequest ==
    /\ Ready
    /\ calls' = ActivateCalls
    /\ last' = Handled("onActivateRequest")
    /\ UNCHANGED <<pc, construction, connected, classes, widgetFlags,
                   pendingUpdate, editorState, pendingSel, editorDisposeCalls>>

\* Variant that requests the update whether visible or not.
AttachRequestsUpdate_Always(visible) == TRUE
\* if (this.isVisible) { this.update(); } : whether onAfterAttach posts an
\* update-request.
AttachRequestsUpdate(visible) == visible

\* An 'after-attach' message.  The framework sets the visible flag (when the
\* widget is not hidden and its parent is visible) and the attached flag,
\* then calls onAfterAttach, which posts an update-request when visible.
AfterAttach(visible) ==
    /\ Ready
    /\ ~isDisposed
    /\ ~isAttached
    /\ isAttached' = TRUE
    /\ isVisible' = visible
    /\ pendingUpdate' = IF AttachRequestsUpdate(visible) THEN TRUE
                        ELSE pendingUpdate
    /\ calls' = <<>>
    /\ last' = Handled("onAfterAttach")
    /\ UNCHANGED <<pc, construction, connected, classes, isDisposed,
                   editorState, pendingSel, editorDisposeCalls>>

\* Variant whose onAfterShow posts nothing.
AfterShow_NoUpdate ==
    /\ Ready
    /\ ~isDisposed
    /\ isAttached
    /\ ~isVisible
    /\ isVisible' = TRUE
    /\ calls' = <<>>
    /\ last' = Handled("onAfterShow")
    /\ UNCHANGED <<pc, construction, connected, classes, isDisposed, isAttached,
                   pendingUpdate, editorState, pendingSel, editorDisposeCalls>>

\* An 'after-show' message: the framework sets the visible flag and calls
\* onAfterShow, which posts an update-request.
AfterShow ==
    /\ Ready
    /\ ~isDisposed
    /\ isAttached
    /\ ~isVisible
    /\ isVisible' = TRUE
    /\ pendingUpdate' = TRUE
    /\ calls' = <<>>
    /\ last' = Handled("onAfterShow")
    /\ UNCHANGED <<pc, construction, connected, classes, isDisposed, isAttached,
                   editorState, pendingSel, editorDisposeCalls>>

\* A 'before-hide' message: the framework clears the visible flag; the
\* wrapper has no handler of its own for it.
BeforeHide ==
    /\ Ready
    /\ isVisible
    /\ isVisible' = FALSE
    /\ calls' = <<>>
    /\ last' = Handled("none")
    /\ UNCHANGED <<pc, construction, connected, classes, isDisposed, isAttached,
                   pendingUpdate, editorState, pendingSel, editorDisposeCalls>>

\* A 'before-detach' message: the framework clears the visible and attached
\* flags; the wrapper has no handler of its own for it.
BeforeDetach ==
    /\ Ready
    /\ isAttached
    /\ isAttached' = FALSE
    /\ isVisible' = FALSE
    /\ calls' = <<>>
    /\ last' = Handled("none")
    /\ UNCHANGED <<pc, construction, connected, classes, isDisposed,
                   pendingUpdate, editorState, pendingSel, editorDisposeCalls>>

\* onResize
Resize(width, height) ==
    /\ Ready
    /\ calls' = ResizeCalls(width, height, isVisible)
    /\ last' = Ran("onResize", width, height)
    /\ UNCHANGED <<pc, construction, connected, classes, widgetFlags,
                   pendingUpdate, editorState, pendingSel, editorDisposeCalls>>

\* Variant that refreshes a visible widget only.
UpdateCalls_NeedsVisible(visible) ==
    IF visible THEN <<Call("refresh", <<>>)>> ELSE <<>>
\* The editor operations onUpdateRequest invokes, with the widget visible
\* or not.
UpdateCalls(visible) == <<Call("refresh", <<>>)>>

\* onUpdateRequest, for the update-request that was posted (posted = TRUE)
\* or for one a parent sends directly.
UpdateRequest(posted) ==
    /\ Ready
    /\ posted => pendingUpdate
    /\ pendingUpdate' = IF posted THEN FALSE ELSE pendingUpdate
    /\ calls' = UpdateCalls(isVisible)
    /\ last' = Handled("onUpdateRequest")
    /\ UNCHANGED <<pc, construction, connected, classes, widgetFlags,
                   editorState, pendingSel, editorDisposeCalls>>

\* ------------------------------------------------------ editor and model
\* The editor's selection becomes sel and the model emits
\* selections.changed; the notification is in flight until the handler runs.
SetSelection(sel) ==
    /\ Ready
    /\ connected
    /\ pendingSel < MaxPending
    /\ selection' = sel
    /\ pendingSel' = pendingSel + 1
    /\ calls' = <<>>
    /\ last' = Handled("none")
    /\ UNCHANGED <<pc, construction, connected, classes, widgetFlags,
                   pendingUpdate, lines, editorDisposeCalls>>

\* The text of one line changes; the model's selections do not.
EditLine(line, text) ==
    /\ Ready
    /\ ~isDisposed
    /\ lines[line] # text
    /\ lines' = [lines EXCEPT ![line] = text]
    /\ calls' = <<>>
    /\ last' = Handled("none")
    /\ UNCHANGED <<pc, construction, connected, classes, widgetFlags,
                   pendingUpdate, selection, pendingSel, editorDisposeCalls>>

\* _onSelectionsChanged, run for one selections.changed notification.
SelectionsChanged ==
    /\ Ready
    /\ connected
    /\ pendingSel > 0
    /\ pendingSel' = pendingSel - 1
    /\ classes' = SelectionClasses(classes, selection, lines)
    /\ calls' = SelectionCalls(selection)
    /\ last' = Handled("onSelectionsChanged")
    /\ UNCHANGED <<pc, construction, connected, widgetFlags, pendingUpdate,
                   editorState, editorDisposeCalls>>

\* The model emits selections.changed while no handler of the wrapper is
\* connected to it (the model outlives the wrapper): nothing of the wrapper
\* runs.
SelectionsChangedUnconnected ==
    /\ Ready
    /\ ~connected
    /\ calls' = <<>>
    /\ last' = Handled("selections.changed")
    /\ UNCHANGED <<pc, construction, connected, classes, widgetFlags,
                   pendingUpdate, editorState, pendingSel, editorDisposeCalls>>

\* The handler that ran returns to its caller; what it did is no longer the
\* latest dispatch.
Return ==
    /\ pc = "idle"
    /\ last.handler # "none"
    /\ calls' = <<>>
    /\ last' = Handled("none")
    /\ UNCHANGED <<pc, construction, connected, classes, widgetFlags,
                   pendingUpdate, editorState, pendingSel, editorDisposeCalls>>

Next ==
    \/ Constructor
    \/ ConstructorThrows
    \/ Dispose
    \/ DisposeEditor
    \/ ActivateRequest
    \/ \E visible \in BOOLEAN : AfterAttach(visible)
    \/ AfterShow
    \/ BeforeHide
    \/ BeforeDetach
    \/ \E width \in Dims, height \in Dims : Resize(width, height)
    \/ \E posted \in BOOLEAN : UpdateRequest(posted)
    \/ \E sel \in Selection : SetSelection(sel)
    \/ \E line \in Lines, text \in LineTexts : EditLine(line, text)
    \/ SelectionsChanged
    \/ SelectionsChangedUnconnected
    \/ Return

Spec == Init /\ [][Next]_vars

\* The message loop delivers a posted update-request: every handler returns,
\* and a posted message that can be delivered again and again is delivered.
FairSpec ==
    /\ Spec
    /\ WF_vars(Return)
    /\ SF_vars(UpdateRequest(TRUE))

\* ================================================================= claims
TwoFlags == {HAS_SELECTION_CLASS, HAS_IN_LEADING_WHITESPACE_CLASS}
RanSelectionsChanged == last.handler = "onSelectionsChanged"
RanResize == last.handler = "onResize"
IsCaret == selection.start = selection.end
\* The caret line up to the caret column, as a set of character positions.
PrefixLen == Min(selection.end.column, Len(lines[selection.end.line]))
PrefixIsWhitespace ==
    /\ PrefixLen >= 1
    /\ \A i \in 1 .. PrefixLen : lines[selection.end.line][i] = "sp"

\* C1: when _onSelectionsChanged has run for a selection whose start and end
\* differ in line or in column, HAS_SELECTION is on the node and
\* HAS_IN_LEADING_WHITESPACE is not, whatever was there before.
C1_RangeSetsHasSelection ==
    (RanSelectionsChanged /\ selection.start # selection.end)
        => /\ HAS_SELECTION_CLASS \in classes
           /\ HAS_IN_LEADING_WHITESPACE_CLASS \notin classes

\* A range with the same column on two lines, handled while the node carried
\* the leading-whitespace class.
C1_Witness ==
    /\ RanSelectionsChanged
    /\ selection.start.line # selection.end.line
    /\ selection.start.column = selection.end.column
    /\ HAS_IN_LEADING_WHITESPACE_CLASS \in last.before.classes
    /\ HAS_SELECTION_CLASS \in classes

\* C2: when _onSelectionsChanged has run for a caret whose line prefix up to
\* the caret column is non-empty and all whitespace,
\* HAS_IN_LEADING_WHITESPACE is on the node and HAS_SELECTION is not.
C2_CaretInLeadingWhitespace ==
    (RanSelectionsChanged /\ IsCaret /\ PrefixIsWhitespace)
        => /\ HAS_IN_LEADING_WHITESPACE_CLASS \in classes
           /\ HAS_SELECTION_CLASS \notin classes

\* A caret behind the whitespace of its line, handled while the node carried
\* the selection class.
C2_Witness ==
    /\ RanSelectionsChanged
    /\ IsCaret
    /\ PrefixIsWhitespace
    /\ HAS_SELECTION_CLASS \in last.before.classes
    /\ HAS_IN_LEADING_WHITESPACE_CLASS \in classes

\* C3: when _onSelectionsChanged has run for a caret at column 0, neither
\* class is on the node, whatever the line's text and whatever was there
\* before.
C3_CaretAtLineStart ==
    (RanSelectionsChanged /\ IsCaret /\ selection.end.column = 0)
        => classes \cap TwoFlags = {}

\* A caret at column 0 of a line of whitespace, handled while the node
\* carried the leading-whitespace class.
C3_Witness ==
    /\ RanSelectionsChanged
    /\ IsCaret
    /\ selection.end.column = 0
    /\ lines[selection.end.line] = <<"sp">>
    /\ HAS_IN_LEADING_WHITESPACE_CLASS \in last.before.classes
    /\ classes \cap TwoFlags = {}

\* C4: in every reachable state at most one of HAS_SELECTION and
\* HAS_IN_LEADING_WHITESPACE is on the node.
C4_AtMostOneFlag == ~(TwoFlags \subseteq classes)

\* A widget that took the selection class from the handler, was disposed
\* and then handled a resize.
C4_Witness ==
    /\ isDisposed
    /\ editorDisposeCalls = 1
    /\ HAS_SELECTION_CLASS \in classes
    /\ last.handler = "onResize"

\* C5: in every state of a constructed, non-disposed wrapper with no
\* selection-changed notification in flight, the two classes on the node are
\* the ones the classifier gives for the editor's current selection and the
\* current text of the caret line.
C5_FlagsReflectEditor ==
    (pc = "idle" /\ ~isDisposed /\ pendingSel = 0)
        => classes \cap TwoFlags = SelectionClasses({}, selection, lines)

\* C6: onResize with width >= 0 and height >= 0 invokes editor.setSize once,
\* with that width and height, and nothing else, visible or hidden.
C6_ResizeSetsSize ==
    (RanResize /\ last.width >= 0 /\ last.height >= 0)
        => calls = <<[op |-> "setSize", args |-> <<last.width, last.height>>]>>

\* A resize to width 1 and height 0 handled by a hidden widget.
C6_Witness ==
    /\ RanResize
    /\ last.width = 1
    /\ last.height = 0
    /\ ~isVisible
    /\ Len(calls) = 1
    /\ calls[1].op = "setSize"

\* C7: onResize with a negative width or height, on a visible widget,
\* invokes editor.resizeToFit once and not editor.setSize.
C7_ResizeFitsWhenVisible ==
    (RanResize /\ (last.width < 0 \/ last.height < 0) /\ isVisible)
        => calls = <<[op |-> "resizeToFit", args |-> <<>>]>>

\* A resize with only the width negative, handled by a visible widget.
C7_Witness ==
    /\ RanResize
    /\ last.width < 0
    /\ last.height > 0
    /\ isVisible
    /\ Len(calls) = 1
    /\ calls[1].op = "resizeToFit"

\* C8: onResize with a negative width or height, on a widget that is not
\* visible, invokes no editor operation and leaves the classes and the
\* disposed flag as they were.
C8_ResizeHiddenDoesNothing ==
    (RanResize /\ (last.width < 0 \/ last.height < 0) /\ ~isVisible)
        => /\ calls = <<>>
           /\ classes = last.before.classes
           /\ isDisposed = last.before.isDisposed
           /\ editorDisposeCalls = last.before.editorDisposeCalls

\* A resize with only the height negative, handled by an attached, hidden
\* widget that carries one of the two classes.
C8_Witness ==
    /\ RanResize
    /\ last.width >= 0
    /\ last.height < 0
    /\ isAttached
    /\ ~isVisible
    /\ classes \cap TwoFlags # {}
    /\ calls = <<>>

\* C9: editor.dispose() is invoked once however often dispose() is called:
\* a call that finds the widget disposed, after the first call or from
\* within it, invokes nothing and changes nothing, and when the first call
\* has returned the editor has been disposed exactly once.
C9_DisposeOnce ==
    /\ editorDisposeCalls <= 1
    /\ (isDisposed /\ pc = "idle") => editorDisposeCalls = 1
    /\ (last.handler = "dispose" /\ last.before.isDisposed)
        => /\ calls = <<>>
           /\ pc = last.before.pc
           /\ isDisposed
           /\ classes = last.before.classes
           /\ editorDisposeCalls = last.before.editorDisposeCalls

\* A second dispose() call after the first one returned.
C9_Witness ==
    /\ last.handler = "dispose"
    /\ last.before.isDisposed
    /\ last.before.pc = "idle"
    /\ last.before.editorDisposeCalls = 1
    /\ editorDisposeCalls = 1

\* C10: the factory is invoked once, by the constructor, with the widget's
\* node and the caller's model, uuid, config and selectionStyle; no later
\* step invokes it again, and this.editor (and with it this.model) is the
\* editor that call returned in every state of the constructed widget.
C10_OneEditorForLife ==
    /\ pc = "new" => factoryCalls = <<>>
    /\ pc # "new" =>
         factoryCalls = <<[host |-> Node, model |-> options.model,
                           uuid |-> options.uuid, config |-> options.config,
                           selectionStyle |-> options.selectionStyle]>>
    /\ pc \in {"idle", "disposing"} =>
         /\ editor = [host |-> Node, model |-> options.model]
         /\ GetModel = options.model

\* A wrapper constructed with a uuid, a config and a selection style, that
\* has handled a selection change and has been disposed.
C10_Witness ==
    /\ options.uuid = "u1"
    /\ isDisposed
    /\ editorDisposeCalls = 1
    /\ classes \cap TwoFlags # {}
    /\ Len(factoryCalls) = 1
    /\ last.handler = "onActivateRequest"

\* C11: when the factory throws, the constructor ends with that error: the
\* handler is not connected, this.editor is not set, no editor operation is
\* invoked then or later, and the widget holds nothing to clean up.
C11_FactoryThrows ==
    pc = "failed"
        => /\ last.handler = "constructor"
           /\ Len(factoryCalls) = 1
           /\ ~connected
           /\ pendingSel = 0
           /\ editor = NoEditor
           /\ calls = <<>>
           /\ editorDisposeCalls = 0
           /\ classes = {WIDGET_CLASS}
           /\ ~isDisposed /\ ~isAttached /\ ~isVisible /\ ~pendingUpdate

\* A construction with a uuid whose factory threw.
C11_Witness ==
    /\ pc = "failed"
    /\ options.uuid = "u1"
    /\ Len(factoryCalls) = 1
    /\ factoryCalls[1].uuid = "u1"

\* C12: onActivateRequest invokes editor.focus() once and nothing else,
\* onUpdateRequest invokes editor.refresh() once and nothing else, visible
\* or hidden.
C12_ActivateFocusesUpdateRefreshes ==
    /\ last.handler = "onActivateRequest"
        => calls = <<[op |-> "focus", args |-> <<>>]>>
    /\ last.handler = "onUpdateRequest"
        => calls = <<[op |-> "refresh", args |-> <<>>]>>

\* An update-request handled by an attached, hidden widget.
C12_Witness ==
    /\ last.handler = "onUpdateRequest"
    /\ isAttached
    /\ ~isVisible
    /\ Len(calls) = 1
    /\ calls[1].op = "refresh"

\* The caret line up to the caret column holds a character that is not
\* whitespace.
PrefixHasNonWhitespace ==
    \E i \in 1 .. PrefixLen : lines[selection.end.line][i] # "sp"

C14_DisposedBeforeEditor ==
    /\ editorDisposeCalls > 0 => isDisposed
    /\ pc = "disposing"
        => /\ isDisposed
           /\ editorDisposeCalls = 0
           /\ ~connected /\ ~isAttached /\ ~isVisible /\ ~pendingUpdate
    /\ (last.handler = "dispose" /\ calls # <<>>)
        => /\ calls = <<[op |-> "dispose", args |-> <<>>]>>
           /\ isDisposed
           /\ ~connected /\ ~isAttached /\ ~isVisible /\ ~pendingUpdate

\* Inside the first dispose() call of an attached, visible widget with an
\* update-request posted: super.dispose() has returned, the editor is not
\* yet disposed.
C14_Witness ==
    /\ pc = "disposing"
    /\ last.handler = "dispose"
    /\ ~last.before.isDisposed
    /\ last.before.pendingUpdate
    /\ isDisposed
    /\ editorDisposeCalls = 0

\* The two classes the classifier gives for the editor's selection and line
\* texts, written without reference to the node's class list.
ExpectedFlags ==
    IF selection.start # selection.end THEN {HAS_SELECTION_CLASS}
    ELSE IF PrefixIsWhitespace THEN {HAS_IN_LEADING_WHITESPACE_CLASS}
    ELSE {}

\* C15: the two classes _onSelectionsChanged leaves are a function of the
\* editor's selection and the caret line's text alone, not of the classes
\* it found; the other classes of the node stay, and a run that finds the
\* classes already right changes nothing.
C15_ClassifierStateless ==
    RanSelectionsChanged
        => /\ classes \cap TwoFlags = ExpectedFlags
           /\ classes \ TwoFlags = last.before.classes \ TwoFlags
           /\ (last.before.classes \cap TwoFlags = ExpectedFlags)
                => classes = last.before.classes

\* The handler run again for a caret in leading whitespace on a node that
\* already carried the leading-whitespace class.
C15_Witness ==
    /\ RanSelectionsChanged
    /\ IsCaret
    /\ HAS_IN_LEADING_WHITESPACE_CLASS \in last.before.classes
    /\ classes = last.before.classes

\* C16: onAfterAttach posts an update-request only when the widget is
\* visible; handled by a hidden widget it posts none, and in either case it
\* invokes no editor operation itself.
C16_AttachUpdatesOnlyVisible ==
    last.handler = "onAfterAttach"
        => /\ calls = <<>>
           /\ isVisible => pendingUpdate
           /\ ~isVisible => pendingUpdate = last.before.pendingUpdate

\* An after-attach handled by a hidden widget with no update-request posted.
C16_Witness ==
    /\ last.handler = "onAfterAttach"
    /\ isAttached
    /\ ~isVisible
    /\ ~pendingUpdate
    /\ calls = <<>>

\* C17: onAfterShow always posts an update-request, and unless the widget is
\* disposed first the posted request is delivered and editor.refresh() is
\* invoked for it.
C17_ShowLeadsToRefresh ==
    /\ [](last.handler = "onAfterShow" => pendingUpdate)
    /\ (last.handler = "onAfterShow")
          ~> \/ isDisposed
             \/ /\ last.handler = "onUpdateRequest"
                /\ ~pendingUpdate
                /\ calls = <<[op |-> "refresh", args |-> <<>>]>>

\* An after-show handled by a widget that had no update-request posted, and
\* has one now.
C17_Witness ==
    /\ last.handler = "onAfterShow"
    /\ ~last.before.pendingUpdate
    /\ pendingUpdate
    /\ isVisible

\* C18: once the widget is disposed its handler is no longer connected and
\* no notification for it is in flight; a selections.changed the model emits
\* afterwards runs nothing of the wrapper: no class changes and neither
\* getSelection nor getLine is invoked.
C18_NoClassifierAfterDispose ==
    /\ isDisposed => (~connected /\ pendingSel = 0)
    /\ RanSelectionsChanged => (~isDisposed /\ editorDisposeCalls = 0)
    /\ last.before.isDisposed
        => /\ classes = last.before.classes
           /\ \A i \in 1 .. Len(calls) :
                calls[i].op \notin {"getSelection", "getLine"}

\* The model emits selections.changed after the wrapper, carrying one of
\* the two classes, was disposed together with its editor.
C18_Witness ==
    /\ last.handler = "selections.changed"
    /\ last.before.isDisposed
    /\ editorDisposeCalls = 1
    /\ classes \cap TwoFlags # {}
    /\ calls = <<>>

LifecycleHandlers ==
    {"onActivateRequest", "onAfterAttach", "onAfterShow", "onResize",
     "onUpdateRequest"}

\* C19: the lifecycle handlers leave the node's classes as they find them,
\* and _onSelectionsChanged invokes no editor operation other than
\* getSelection and getLine.
C19_ClassesOnlyFromSelection ==
    /\ last.handler \in LifecycleHandlers => classes = last.before.classes
    /\ RanSelectionsChanged
        => /\ Len(calls) >= 1
           /\ \A i \in 1 .. Len(calls) :
                calls[i].op \in {"getSelection", "getLine"}

\* An after-show handled by a widget that carries one of the two classes.
C19_Witness ==
    /\ last.handler = "onAfterShow"
    /\ classes \cap TwoFlags # {}
    /\ classes = last.before.classes

\* C20: once editor.dispose() has run, no handler invokes editor.focus,
\* editor.refresh, editor.setSize or editor.resizeToFit.
C20_NoEditorUseAfterDispose ==
    last.before.editorDisposeCalls >= 1
        => \A i \in 1 .. Len(calls) :
             calls[i].op \notin {"focus", "refresh", "setSize", "resizeToFit"}

=============================================================================
